---- MODULE Spec2Model ----
(***************************************************************************)
(* Model of the HoroPCA experiment pipeline of the two notebooks           *)
(* src/main2.ipynb (function run with its helpers load_graph_data and      *)
(* get_hyperbolic_embeddings) and src/main.ipynb (the same pipeline as     *)
(* top-level cells followed by a function run that works on the globals).  *)
(*                                                                         *)
(* The libraries the notebooks call (learning.frechet, learning.pca,       *)
(* the geom and utils packages) are not part of the sources; visible of    *)
(* learning/pca.py are the lines quoted by the recorded tracebacks         *)
(* (PCA.fit lines 166-169, PCA.fit_optim lines 125-133).  The Frechet-mean *)
(* estimator and the parts of fit that the tracebacks do not show are      *)
(* modelled from the design document.                                      *)
(*                                                                         *)
(* Values of the numerical objects (point sets, distance matrices,         *)
(* component sets) are represented by records that say how the object was  *)
(* produced, so that two objects are equal iff they were produced the same *)
(* way from the same inputs.                                               *)
(***************************************************************************)
EXTENDS Integers, Sequences, FiniteSets, TLC

\* ------------------------------------------------------------------ bounds
\* largest n_runs argument explored
MaxRuns == 2
\* step budget of the Frechet-mean estimator (stands for max_steps=5000)
FrechetMaxSteps == 2
\* step budget of the PCA optimisation loop (stands for max_steps=500)
FitMaxSteps == 2

\* largest absolute value of a coordinate of a basis vector
VecRange == 1

\* ball points are taken from the grids (a/q, b/q) with q up to GridDen
GridDen == 4

\* number of nodes of the path graph given to sarkar
PathNodes == 7
\* largest edge weight of the path graph
MaxWeight == 2

\* --------------------------------------------------------------- inputs
Notebooks == {"main", "main2"}
\* the five keys of pca_models, the hMDS name of list_model, and a name that
\* is in neither
ModelTypes == {"pca", "tpca", "pga", "bsa", "horopca", "hmds", "unknown"}
\* dimensions tried: the three pretrained ones and one that is not
Dims == {2, 3, 10, 50}
PretrainedDims == {2, 10, 50}
\* list_model of the driver cell: the names a caller is expected to pass
KnownVariants == {"pca", "horopca", "pga", "bsa", "tpca", "hmds"}

VARIABLES
    nb,             \* which notebook's run() is executing
    cfg,            \* the arguments of run(): model_type, dim, n_runs, use_sarkar
    pc,             \* position inside the pipeline
    err,            \* the exception that ended the execution, "none" if none
    trace,          \* calls made so far, in order
    graph_dist,     \* all-pairs shortest path matrix
    z,              \* hyperbolic embedding
    z_dist,         \* pairwise distances of z
    fr,             \* Frechet-mean estimator: state, iteration, candidate mean
    mu_ref,         \* the mean returned by frechet.mean
    has_converged,  \* the flag returned by frechet.mean
    x,              \* centered point set
    runIdx,         \* number of completed loop cycles of run()
    model,          \* the PCA model instance of the current cycle
    fitI,           \* iteration index i of the loop of fit_optim
    metrics,        \* the variable metrics of run()
    embeddings,     \* the variable embeddings of run()
    aggCalls,       \* number of calls of aggregate_metrics
    formatted,      \* TRUE once format_metrics has rendered metrics
    intr,           \* where a KeyboardInterrupt hit the loop of fit_optim
    op,             \* a call of minkowski.orthogonal_projection
    rt,             \* a call of hyperboloid.from_poincare / to_poincare
    sk              \* a run of utils.sarkar.sarkar

\* the variables of the geometry library calls examined on their own
geomVars == <<op, rt, sk>>

\* the variables of the pipeline
pipelineVars == <<nb, cfg, pc, err, trace, graph_dist, z, z_dist, fr, mu_ref,
                  has_converged, x, runIdx, model, fitI, metrics, embeddings,
                  aggCalls, formatted, intr>>

vars == <<nb, cfg, pc, err, trace, graph_dist, z, z_dist, fr, mu_ref,
          has_converged, x, runIdx, model, fitI, metrics, embeddings,
          aggCalls, formatted, intr, op, rt, sk>>

\* ------------------------------------------------------- value encodings
NoMatrix == [of |-> "none", scaled |-> FALSE]
NoPoints == [kind |-> "none", dim |-> 0, center |-> -1]
NoModel == [cls |-> "none", seed |-> -1, iterative |-> FALSE, optim |-> FALSE,
            steps |-> 0, spectral |-> 0, nonfinite |-> FALSE, fitted |-> FALSE]
FrechetIdle == [state |-> "Idle", iter |-> 0, mu |-> 0, met |-> FALSE]
NoInterrupt == [at |-> "none", i |-> -1]
\* no library call under examination
NoCall == [phase |-> "idle"]
GeomIdle == /\ op = NoCall
            /\ rt = NoCall
            /\ sk = NoCall

\* the table with tpca sent to the optimiser
pca_models_tpca_optim(n_runs) ==
    [pca     |-> [class |-> "EucPCA",     optim |-> FALSE, iterative |-> FALSE, n_runs |-> 1],
     tpca    |-> [class |-> "TangentPCA", optim |-> TRUE,  iterative |-> FALSE, n_runs |-> 1],
     pga     |-> [class |-> "PGA",        optim |-> TRUE,  iterative |-> TRUE,  n_runs |-> n_runs],
     bsa     |-> [class |-> "BSA",        optim |-> TRUE,  iterative |-> FALSE, n_runs |-> n_runs],
     horopca |-> [class |-> "HoroPCA",    optim |-> TRUE,  iterative |-> FALSE, n_runs |-> n_runs]]

\* the table pca_models of run(): class, optim, iterative, n_runs
pca_models(n_runs) ==
    [pca     |-> [class |-> "EucPCA",     optim |-> FALSE, iterative |-> FALSE, n_runs |-> 1],
     tpca    |-> [class |-> "TangentPCA", optim |-> FALSE, iterative |-> FALSE, n_runs |-> 1],
     pga     |-> [class |-> "PGA",        optim |-> TRUE,  iterative |-> TRUE,  n_runs |-> n_runs],
     bsa     |-> [class |-> "BSA",        optim |-> TRUE,  iterative |-> FALSE, n_runs |-> n_runs],
     horopca |-> [class |-> "HoroPCA",    optim |-> TRUE,  iterative |-> FALSE, n_runs |-> n_runs]]

model_params == pca_models(cfg.n_runs)[cfg.model_type]

Raise(e) == /\ err' = e
            /\ pc' = "raised"

Call(names) == trace' = trace \o names

\* ----------------------------------------------------------------- Init
Init ==
    /\ nb \in Notebooks
    /\ cfg \in [model_type : ModelTypes, dim : Dims, n_runs : 0..MaxRuns,
                use_sarkar : BOOLEAN]
    /\ pc = "load_graph"
    /\ err = "none"
    /\ trace = <<>>
    /\ graph_dist = NoMatrix
    /\ z = NoPoints
    /\ z_dist = NoMatrix
    /\ fr = FrechetIdle
    /\ mu_ref = -1
    /\ has_converged = FALSE
    /\ x = NoPoints
    /\ runIdx = 0
    /\ model = NoModel
    /\ fitI = 0
    \* main2: metrics = [] and embeddings = {} are locals bound on entry;
    \* main: both names are assigned inside run, hence local and unbound
    /\ metrics = IF nb = "main2" THEN [kind |-> "list", recs |-> <<>>]
                                 ELSE [kind |-> "unbound", recs |-> <<>>]
    /\ embeddings = IF nb = "main2" THEN [kind |-> "empty", of |-> NoModel]
                                    ELSE [kind |-> "unbound", of |-> NoModel]
    /\ aggCalls = 0
    /\ formatted = FALSE
    /\ intr = NoInterrupt
    /\ GeomIdle

\* ------------------------------------------------------ pipeline: inputs
\* load_graph_data: load the graph and run Floyd-Warshall on it
load_graph_data ==
    /\ pc = "load_graph"
    /\ Call(<<"load_graph", "floyd_warshall">>)
    /\ graph_dist' = [of |-> "graph", scaled |-> FALSE]
    /\ pc' = "embed"
    /\ UNCHANGED <<geomVars, intr, nb, cfg, err, z, z_dist, fr, mu_ref, has_converged, x,
                   runIdx, model, fitI, metrics, embeddings, aggCalls, formatted>>

\* the assert of the pretrained branch left out
DimAssertOff(dim) == TRUE

\* the assert of the pretrained branch
DimAssertHolds(dim) == dim \in PretrainedDims

\* the assert placed in front of the if, so that it guards both branches
DimAssertedAlways(use_sarkar) == TRUE

\* the assert stands in the else branch: it is reached only without Sarkar
DimAsserted(use_sarkar) == ~use_sarkar

\* the Sarkar branch: z = sarkar(graph, tau=sarkar_scale, root, dim);
\* z_dist = pairwise_distance(z) / sarkar_scale; z itself is not rescaled
SarkarEmbedding(dim) ==
    [z      |-> [kind |-> "sarkar", dim |-> dim, center |-> -1],
     z_dist |-> [of |-> "sarkar", scaled |-> TRUE]]

\* get_hyperbolic_embeddings: Sarkar construction or pretrained file
get_hyperbolic_embeddings ==
    /\ pc = "embed"
    /\ IF DimAsserted(cfg.use_sarkar) /\ ~DimAssertHolds(cfg.dim)
       THEN /\ Raise("AssertionError")
            /\ UNCHANGED <<trace, z, z_dist>>
       ELSE IF cfg.use_sarkar
            THEN /\ Call(<<"pick_root", "sarkar", "pairwise_distance">>)
                 /\ z' = SarkarEmbedding(cfg.dim).z
                 /\ z_dist' = SarkarEmbedding(cfg.dim).z_dist
                 /\ pc' = "distortion"
                 /\ UNCHANGED err
            ELSE /\ Call(<<"load_embeddings", "pairwise_distance">>)
                 /\ z' = [kind |-> "pretrained", dim |-> cfg.dim, center |-> -1]
                 /\ z_dist' = [of |-> "pretrained", scaled |-> FALSE]
                 /\ pc' = "distortion"
                 /\ UNCHANGED err
    /\ UNCHANGED <<geomVars, intr, nb, cfg, graph_dist, fr, mu_ref,
                   has_converged, x, runIdx, model, fitI, metrics, embeddings,
                   aggCalls, formatted>>

\* distortion = avg_distortion_measures(graph_dist, z_dist)[0], only logged
embedding_distortion ==
    /\ pc = "distortion"
    /\ Call(<<"avg_distortion_measures">>)
    /\ pc' = "frechet"
    /\ UNCHANGED <<geomVars, intr, nb, cfg, err, graph_dist, z, z_dist, fr, mu_ref,
                   has_converged, x, runIdx, model, fitI, metrics, embeddings,
                   aggCalls, formatted>>

\* ------------------------------------------------ Frechet-mean estimator
\* Frechet(lr=1e-2, eps=1e-5, max_steps=5000).mean(z, return_converged=True)
\* States Init -> Iterating -> {Converged, MaxStepsReached}.  fr.iter counts
\* the gradient steps taken, fr.mu names the candidate reached by them, and
\* fr.met records whether a step's change fell below eps.
FrechetTerminal == {"Converged", "MaxStepsReached"}

\* step budget tested with <= instead of <
FrechetBudgetOffByOne(iter) == iter <= FrechetMaxSteps

FrechetBudgetLeft(iter) == iter < FrechetMaxSteps

frechet_init ==
    /\ pc = "frechet"
    /\ fr.state = "Idle"
    /\ Call(<<"frechet_mean">>)
    /\ fr' = [state |-> "Init", iter |-> 0, mu |-> 0, met |-> FALSE]
    /\ UNCHANGED <<geomVars, intr, nb, cfg, pc, err, graph_dist, z, z_dist, mu_ref,
                   has_converged, x, runIdx, model, fitI, metrics, embeddings,
                   aggCalls, formatted>>

\* the candidate is initialised: the iteration starts
frechet_start ==
    /\ pc = "frechet"
    /\ fr.state = "Init"
    /\ fr' = [fr EXCEPT !.state = "Iterating"]
    /\ UNCHANGED <<geomVars, intr, nb, cfg, pc, err, trace, graph_dist, z, z_dist, mu_ref,
                   has_converged, x, runIdx, model, fitI, metrics, embeddings,
                   aggCalls, formatted>>

\* one gradient step on the candidate, then the convergence test
frechet_iterate ==
    /\ pc = "frechet"
    /\ fr.state = "Iterating"
    /\ FrechetBudgetLeft(fr.iter)
    /\ \E below_eps \in BOOLEAN :
          fr' = [state |-> IF below_eps THEN "Converged" ELSE "Iterating",
                 iter  |-> fr.iter + 1,
                 mu    |-> fr.iter + 1,
                 met   |-> below_eps]
    /\ UNCHANGED <<geomVars, intr, nb, cfg, pc, err, trace, graph_dist, z, z_dist, mu_ref,
                   has_converged, x, runIdx, model, fitI, metrics, embeddings,
                   aggCalls, formatted>>

\* the step budget is used up before the tolerance was met
frechet_max_steps ==
    /\ pc = "frechet"
    /\ fr.state = "Iterating"
    /\ ~FrechetBudgetLeft(fr.iter)
    /\ fr' = [fr EXCEPT !.state = "MaxStepsReached"]
    /\ UNCHANGED <<geomVars, intr, nb, cfg, pc, err, trace, graph_dist, z, z_dist, mu_ref,
                   has_converged, x, runIdx, model, fitI, metrics, embeddings,
                   aggCalls, formatted>>

\* run() giving up when the mean has not converged
AfterMeanStrict(converged) == IF converged THEN "center" ELSE "raised"

\* run() going on to the reduction without centering the embedding
AfterMeanSkipsCentering(converged) == "dispatch"

\* where run() goes once frechet.mean has returned: has_converged is logged
\* and the centering follows unconditionally
AfterMean(converged) == "center"

\* mu_ref, has_converged = frechet.mean(z, return_converged=True)
frechet_return ==
    /\ pc = "frechet"
    /\ fr.state \in FrechetTerminal
    /\ mu_ref' = fr.mu
    /\ has_converged' = (fr.state = "Converged")
    /\ pc' = AfterMean(fr.state = "Converged")
    /\ UNCHANGED <<geomVars, intr, nb, cfg, err, trace, graph_dist, z, z_dist, fr, x, runIdx,
                   model, fitI, metrics, embeddings, aggCalls, formatted>>

\* poincare.reflect_at_zero(z, mu): the points of z moved by the isometry
\* that takes mu to the origin
reflect_at_zero(zv, mu) == [kind |-> zv.kind, dim |-> zv.dim, center |-> mu]

\* x = poincare.reflect_at_zero(z, mu_ref)
center ==
    /\ pc = "center"
    /\ Call(<<"reflect_at_zero">>)
    /\ x' = reflect_at_zero(z, mu_ref)
    /\ pc' = "dispatch"
    /\ UNCHANGED <<geomVars, intr, nb, cfg, err, graph_dist, z, z_dist, fr, mu_ref,
                   has_converged, runIdx, model, fitI, metrics, embeddings,
                   aggCalls, formatted>>

\* ------------------------------------------------------ run(): reduction
\* if model_type in pca_models.keys(): ... else: hMDS baseline
dispatch ==
    /\ pc = "dispatch"
    /\ pc' = IF cfg.model_type \in DOMAIN pca_models(cfg.n_runs)
             THEN "loop" ELSE "hmds"
    /\ UNCHANGED <<geomVars, intr, nb, cfg, err, trace, graph_dist, z, z_dist, fr, mu_ref,
                   has_converged, x, runIdx, model, fitI, metrics, embeddings,
                   aggCalls, formatted>>

\* the instance of the previous cycle fitted again instead of a new one
ReusedModel(prev, params, k) ==
    IF k = 0
    THEN [cls |-> params.class, seed |-> k, iterative |-> params.iterative,
          optim |-> params.optim, steps |-> 0, spectral |-> 0,
          nonfinite |-> FALSE, fitted |-> FALSE]
    ELSE prev

\* model = model_params['class'](dim, n_components, lr, max_steps=500):
\* a new instance with its own random initialisation, nothing of prev kept
NewModel(prev, params, k) ==
    [cls |-> params.class, seed |-> k, iterative |-> params.iterative,
     optim |-> params.optim, steps |-> 0, spectral |-> 0,
     nonfinite |-> FALSE, fitted |-> FALSE]

\* a cycle that leaves out the fit of the closed-form variants
CycleStartSkipsFit(params) == IF params.optim THEN "fit" ELSE "metrics"

\* the first statement of a cycle after the construction: model.fit(x, ...)
CycleStart(params) == "fit"

\* for _ in range(model_params["n_runs"]): construct the model of this cycle
loop_head ==
    /\ pc = "loop"
    /\ IF runIdx < model_params.n_runs
       THEN /\ model' = NewModel(model, model_params, runIdx)
            /\ pc' = CycleStart(model_params)
       ELSE /\ pc' = "aggregate"
            /\ UNCHANGED model
    /\ UNCHANGED <<geomVars, intr, nb, cfg, err, trace, graph_dist, z, z_dist, fr, mu_ref,
                   has_converged, x, runIdx, fitI, metrics, embeddings,
                   aggCalls, formatted>>

\* PCA.fit(x, iterative, optim): if optim: fit_optim(x, iterative)
\*                               else: fit_spectral(x)
fit ==
    /\ pc = "fit"
    /\ Call(<<"fit">>)
    /\ pc' = IF model.optim THEN "fit_optim" ELSE "fit_spectral"
    /\ fitI' = 0
    /\ UNCHANGED <<geomVars, intr, nb, cfg, err, graph_dist, z, z_dist, fr, mu_ref,
                   has_converged, x, runIdx, model, metrics, embeddings,
                   aggCalls, formatted>>

\* closed-form solution: one decomposition, no optimizer step
fit_spectral ==
    /\ pc = "fit_spectral"
    /\ model' = [model EXCEPT !.spectral = @ + 1, !.fitted = TRUE]
    /\ pc' = "metrics"
    /\ UNCHANGED <<geomVars, intr, nb, cfg, err, trace, graph_dist, z, z_dist, fr, mu_ref,
                   has_converged, x, runIdx, fitI, metrics, embeddings,
                   aggCalls, formatted>>

\* what compute_loss can deliver at one iteration: a finite loss, a
\* non-finite one, or an exception raised inside the projection.  Once the
\* parameters are non-finite every later loss is non-finite too.
LossOutcomes(m) == IF m.nonfinite THEN {"nonfinite"}
                   ELSE {"finite", "nonfinite", "raise"}

\* body of the loop of fit_optim for one i:
\*   Q = get_components(); loss = compute_loss(x, Q); loss_vals.append(..)
\*   optimizer.zero_grad(); loss.backward(); clip_grad_norm_(.., 1e5)
\*   # if self.components[0].grad.sum().isnan().item():   (commented out)
\*   optimizer step
\* No test of the loss or of the gradient stands between the loss and the
\* update, so the update is applied whatever the loss is.
StepApplied(outcome) == outcome \in {"finite", "nonfinite"}

fit_optim_iteration ==
    /\ pc = "fit_optim"
    /\ fitI < FitMaxSteps
    /\ \E outcome \in LossOutcomes(model) :
         IF StepApplied(outcome)
         THEN /\ model' = [model EXCEPT !.steps = @ + 1,
                                        !.nonfinite = (outcome = "nonfinite")]
              /\ fitI' = fitI + 1
              \* a finite loss may meet the tolerance and end the loop early
              /\ \E stop \in IF outcome = "finite" THEN BOOLEAN ELSE {FALSE} :
                    pc' = IF stop THEN "fit_done" ELSE "fit_optim"
              /\ UNCHANGED err
         ELSE \* the exception leaves fit_optim, fit and run: none catches it
              /\ Raise("DegeneracyError")
              /\ UNCHANGED <<model, fitI>>
    /\ UNCHANGED <<geomVars, intr, nb, cfg, trace, graph_dist, z, z_dist, fr, mu_ref,
                   has_converged, x, runIdx, metrics, embeddings, aggCalls,
                   formatted>>

\* the statements of the loop body in which the recorded runs were stopped
\* by KeyboardInterrupt: compute_loss (main2, inside orthogonal_projection)
\* and loss.backward() (main, inside run_backward)
InterruptPoints == {"compute_loss", "backward"}

\* the user interrupts the kernel while fit_optim is inside iteration fitI;
\* fit_optim has no cancellation test of its own, the exception leaves run()
keyboard_interrupt ==
    /\ pc = "fit_optim"
    /\ fitI < FitMaxSteps
    /\ \E point \in InterruptPoints : intr' = [at |-> point, i |-> fitI]
    /\ Raise("KeyboardInterrupt")
    /\ UNCHANGED <<geomVars, nb, cfg, trace, graph_dist, z, z_dist, fr, mu_ref,
                   has_converged, x, runIdx, model, fitI, metrics, embeddings,
                   aggCalls, formatted>>

\* range(self.max_steps) is exhausted
fit_optim_exhausted ==
    /\ pc = "fit_optim"
    /\ fitI >= FitMaxSteps
    /\ pc' = "fit_done"
    /\ UNCHANGED <<geomVars, intr, nb, cfg, err, trace, graph_dist, z, z_dist, fr, mu_ref,
                   has_converged, x, runIdx, model, fitI, metrics, embeddings,
                   aggCalls, formatted>>

\* fit_optim returns to fit, fit returns to run
fit_return ==
    /\ pc = "fit_done"
    /\ model' = [model EXCEPT !.fitted = TRUE]
    /\ pc' = "metrics"
    /\ UNCHANGED <<geomVars, intr, nb, cfg, err, trace, graph_dist, z, z_dist, fr, mu_ref,
                   has_converged, x, runIdx, fitI, metrics, embeddings,
                   aggCalls, formatted>>

\* model.compute_metrics(x): the metrics record of the fitted model on x
compute_metrics(m, xv) == [seed |-> m.seed, steps |-> m.steps,
                           spectral |-> m.spectral,
                           nonfinite |-> m.nonfinite, x |-> xv]

\* metrics.append(model.compute_metrics(x)).  metrics.append is evaluated
\* before the argument: with metrics unbound (main) nothing is computed.
append_metrics ==
    /\ pc = "metrics"
    /\ IF metrics.kind = "unbound"
       THEN /\ Raise("UnboundLocalError")
            /\ UNCHANGED <<trace, metrics>>
       ELSE /\ Call(<<"compute_metrics">>)
            /\ metrics' = [metrics EXCEPT
                             !.recs = Append(@, compute_metrics(model, x))]
            /\ pc' = "map"
            /\ UNCHANGED err
    /\ UNCHANGED <<geomVars, intr, nb, cfg, graph_dist, z, z_dist, fr, mu_ref, has_converged,
                   x, runIdx, model, fitI, embeddings, aggCalls, formatted>>

\* model.map_to_ball(x): projection of x on the fitted components
map_to_ball(m, xv) == [kind |-> "array", of |-> m]

\* the projection bound to x as well: x = embeddings = model.map_to_ball(x)
MapAssignRebindsX(m, xv) ==
    [embeddings |-> map_to_ball(m, xv),
     x |-> [kind |-> "projected", dim |-> xv.dim, center |-> xv.center]]

\* the embedding of the first cycle kept, later ones dropped
MapAssignKeepsFirst(m, xv) ==
    [embeddings |-> IF embeddings.kind = "array" THEN embeddings
                    ELSE map_to_ball(m, xv),
     x |-> xv]

\* what the statement embeddings = model.map_to_ball(x)... binds
MapAssign(m, xv) == [embeddings |-> map_to_ball(m, xv), x |-> xv]

map_embeddings ==
    /\ pc = "map"
    /\ Call(<<"map_to_ball">>)
    /\ embeddings' = MapAssign(model, x).embeddings
    /\ x' = MapAssign(model, x).x
    /\ runIdx' = runIdx + 1
    /\ pc' = "loop"
    /\ UNCHANGED <<geomVars, intr, nb, cfg, err, graph_dist, z, z_dist, fr, mu_ref,
                   has_converged, model, fitI, metrics, aggCalls, formatted>>

\* metrics = aggregate_metrics(metrics)
aggregate ==
    /\ pc = "aggregate"
    /\ IF metrics.kind = "unbound"
       THEN /\ Raise("UnboundLocalError")
            /\ UNCHANGED <<trace, metrics, aggCalls>>
       ELSE /\ Call(<<"aggregate_metrics">>)
            /\ metrics' = [kind |-> "aggregated", recs |-> metrics.recs]
            /\ aggCalls' = aggCalls + 1
            /\ pc' = "format"
            /\ UNCHANGED err
    /\ UNCHANGED <<geomVars, intr, nb, cfg, graph_dist, z, z_dist, fr, mu_ref, has_converged,
                   x, runIdx, model, fitI, embeddings, formatted>>

\* hMDS baseline: from_poincare, distance, pairwise_distance, mds,
\* to_poincare, then embeddings["hMDS"] = x_proj.numpy()
hmds ==
    /\ pc = "hmds"
    /\ Call(<<"from_poincare", "hyperboloid_distance", "pairwise_distance",
              "mds", "to_poincare">>)
    /\ IF embeddings.kind = "unbound"
       THEN /\ Raise("UnboundLocalError")
            /\ UNCHANGED embeddings
       ELSE /\ embeddings' = [kind |-> "hMDS", of |-> NoModel]
            /\ pc' = "hmds_metrics"
            /\ UNCHANGED err
    /\ UNCHANGED <<geomVars, intr, nb, cfg, graph_dist, z, z_dist, fr, mu_ref, has_converged,
                   x, runIdx, model, fitI, metrics, aggCalls, formatted>>

\* metrics = compute_metrics(x, x_proj)
hmds_metrics ==
    /\ pc = "hmds_metrics"
    /\ Call(<<"compute_metrics">>)
    /\ metrics' = [kind |-> "single", recs |-> <<compute_metrics(NoModel, x)>>]
    /\ pc' = "format"
    /\ UNCHANGED <<geomVars, intr, nb, cfg, err, graph_dist, z, z_dist, fr, mu_ref,
                   has_converged, x, runIdx, model, fitI, embeddings, aggCalls,
                   formatted>>

\* results = format_metrics(metrics, metrics_final); log; return
format_results ==
    /\ pc = "format"
    /\ Call(<<"format_metrics">>)
    /\ formatted' = TRUE
    /\ pc' = "done"
    /\ UNCHANGED <<geomVars, intr, nb, cfg, err, graph_dist, z, z_dist, fr, mu_ref,
                   has_converged, x, runIdx, model, fitI, metrics, embeddings,
                   aggCalls>>

Next == \/ load_graph_data
        \/ get_hyperbolic_embeddings
        \/ embedding_distortion
        \/ frechet_init
        \/ frechet_start
        \/ frechet_iterate
        \/ frechet_max_steps
        \/ frechet_return
        \/ center
        \/ dispatch
        \/ loop_head
        \/ fit
        \/ fit_spectral
        \/ fit_optim_iteration
        \/ keyboard_interrupt
        \/ fit_optim_exhausted
        \/ fit_return
        \/ append_metrics
        \/ map_embeddings
        \/ aggregate
        \/ hmds
        \/ hmds_metrics
        \/ format_results

Spec == Init /\ [][Next]_vars

\* the program is one sequential thread: it keeps running until it returns
\* or raises
FairSpec == Spec /\ WF_vars(Next)

\* ------------------------------------------------------ geometry library
\* The pipeline stands still while a library call is examined on its own.
PipelineParked ==
    /\ nb = "main2"
    /\ cfg = [model_type |-> "horopca", dim |-> 2, n_runs |-> 0,
              use_sarkar |-> TRUE]
    /\ pc = "library"
    /\ err = "none"
    /\ trace = <<>>
    /\ graph_dist = NoMatrix
    /\ z = NoPoints
    /\ z_dist = NoMatrix
    /\ fr = FrechetIdle
    /\ mu_ref = -1
    /\ has_converged = FALSE
    /\ x = NoPoints
    /\ runIdx = 0
    /\ model = NoModel
    /\ fitI = 0
    /\ metrics = [kind |-> "list", recs |-> <<>>]
    /\ embeddings = [kind |-> "empty", of |-> NoModel]
    /\ aggCalls = 0
    /\ formatted = FALSE
    /\ intr = NoInterrupt

\* vectors of R^(1+2), time coordinate first
Vectors(r) == {<<t, a, b>> : t \in -r..r, a \in -r..r, b \in -r..r}

\* the Minkowski bilinear form <u,v> = -u0 v0 + u1 v1 + u2 v2
bilinear_pairing(u, v) == -(u[1] * v[1]) + u[2] * v[2] + u[3] * v[3]

\* Gram matrix of a basis of two vectors under the form
Gram(b1, b2) == <<<<bilinear_pairing(b1, b1), bilinear_pairing(b1, b2)>>,
                  <<bilinear_pairing(b2, b1), bilinear_pairing(b2, b2)>>>>

Det2(G) == G[1][1] * G[2][2] - G[1][2] * G[2][1]

\* a degeneracy test that looks only for null basis vectors
GramSingularDiagonalOnly(G) == G[1][1] = 0 \/ G[2][2] = 0

\* the basis is degenerate: its Gram matrix is singular
GramSingular(G) == Det2(G) = 0

\* orthogonal_projection(basis, x): the solution c of Gram c = <basis, x>
\* gives the projection c1 b1 + c2 b2.  The result is kept as a numerator
\* vector over the common denominator det(Gram); a singular Gram matrix is
\* signalled instead of being divided by.
orthogonal_projection(b1, b2, xv) ==
    LET G  == Gram(b1, b2)
        r1 == bilinear_pairing(b1, xv)
        r2 == bilinear_pairing(b2, xv)
        c1 == r1 * G[2][2] - r2 * G[1][2]
        c2 == G[1][1] * r2 - G[2][1] * r1
    IN IF GramSingular(G)
       THEN [raised |-> TRUE, num |-> <<0, 0, 0>>, den |-> 0]
       ELSE [raised |-> FALSE,
             num |-> [i \in 1..3 |-> c1 * b1[i] + c2 * b2[i]],
             den |-> Det2(G)]

ProjInit ==
    /\ PipelineParked
    /\ op \in [phase : {"call"}, b1 : Vectors(VecRange), b2 : Vectors(VecRange),
                x : Vectors(1),
                result : {[raised |-> FALSE, num |-> <<0, 0, 0>>, den |-> 0]}]
    /\ rt = NoCall
    /\ sk = NoCall

orthogonal_projection_call ==
    /\ op.phase = "call"
    /\ op' = [op EXCEPT !.phase = "done",
                        !.result = orthogonal_projection(op.b1, op.b2, op.x)]
    /\ UNCHANGED <<pipelineVars, rt, sk>>

ProjNext == orthogonal_projection_call

ProjSpec == ProjInit /\ [][ProjNext]_vars

\* interior points of the Poincare disc with coordinates a/q, b/q
BallPoints == {p \in [a : -GridDen..GridDen, b : -GridDen..GridDen,
                      q : 1..GridDen] :
                 /\ p.a \in -p.q..p.q
                 /\ p.b \in -p.q..p.q
                 /\ p.a * p.a + p.b * p.b < p.q * p.q}

\* to_poincare that divides by the time coordinate instead of 1 + time
to_poincare_no_shift(y) == [a |-> y.s1, b |-> y.s2, q |-> y.t]

\* hyperboloid.from_poincare(x): (1 + |x|^2, 2x) / (1 - |x|^2), time
\* coordinate t first; the point is kept as integers over the denominator
\* den
from_poincare(p) ==
    LET n2 == p.a * p.a + p.b * p.b
    IN [t   |-> p.q * p.q + n2,
        s1  |-> 2 * p.a * p.q,
        s2  |-> 2 * p.b * p.q,
        den |-> p.q * p.q - n2]

\* hyperboloid.to_poincare(y): spatial part / (1 + time coordinate)
to_poincare(y) == [a |-> y.s1, b |-> y.s2, q |-> y.den + y.t]

RoundTripInit ==
    /\ PipelineParked
    /\ op = NoCall
    /\ rt \in [phase : {"ball"}, x : BallPoints,
                y : {[t |-> 0, s1 |-> 0, s2 |-> 0, den |-> 0]},
                back : {[a |-> 0, b |-> 0, q |-> 0]}]
    /\ sk = NoCall

from_poincare_call ==
    /\ rt.phase = "ball"
    /\ rt' = [rt EXCEPT !.phase = "hyperboloid", !.y = from_poincare(rt.x)]
    /\ UNCHANGED <<pipelineVars, op, sk>>

to_poincare_call ==
    /\ rt.phase = "hyperboloid"
    /\ rt' = [rt EXCEPT !.phase = "back", !.back = to_poincare(rt.y)]
    /\ UNCHANGED <<pipelineVars, op, sk>>

RoundTripNext == from_poincare_call \/ to_poincare_call

RoundTripSpec == RoundTripInit /\ [][RoundTripNext]_vars

\* --------------------------------------------------------------- Sarkar
\* sarkar(graph, tau, root, dim=2) on the path graph 1-2-...-PathNodes with
\* edge i between the nodes i and i+1.  On a path every node has at most
\* two neighbours, so all nodes are placed on one geodesic through the
\* origin; a position is the signed arc length on that geodesic, counted in
\* halves of a unit so that tau = 3.5 is the integer TauHalves.
TauHalves == 7

PathGraph == 1..PathNodes

Neighbours(u) == {u - 1, u + 1} \cap PathGraph

EdgeWeight(w, u, v) == w[IF u < v THEN u ELSE v]

InSeq(q, n) == \E i \in 1..Len(q) : q[i] = n

\* the two directions in which the geodesic leaves a node
Directions == {1, -1}

\* directions at u already taken by the parent and the placed children
UsedDirections(s, u) ==
    {d \in Directions : \E v \in Neighbours(u) :
        /\ InSeq(s.placed, v)
        /\ (s.pos[v] - s.pos[u]) * d > 0}

\* a child placed without regard to the directions already taken
AnyDirection(used) == Directions

\* the directions with the largest angle to those already taken
FreeDirections(used) == Directions \ used

SarkarInit ==
    /\ PipelineParked
    /\ op = NoCall
    /\ rt = NoCall
    /\ \E root \in PathGraph, w \in [1..(PathNodes - 1) -> 1..MaxWeight] :
          sk = [phase  |-> "run",
                root   |-> root,
                w      |-> w,
                placed |-> <<root>>,
                queue  |-> <<root>>,
                parent |-> [n \in PathGraph |-> 0],
                pos    |-> [n \in PathGraph |-> 0]]

\* place one child of the node at the head of the queue at distance
\* tau * weight from it
sarkar_place_child ==
    /\ sk.phase = "run"
    /\ sk.queue # <<>>
    /\ LET u == Head(sk.queue)
       IN \E c \in Neighbours(u), d \in FreeDirections(UsedDirections(sk, u)) :
             /\ ~InSeq(sk.placed, c)
             /\ sk' = [sk EXCEPT
                         !.placed = Append(@, c),
                         !.queue = Append(@, c),
                         !.parent[c] = u,
                         !.pos[c] = sk.pos[u]
                                    + d * TauHalves * EdgeWeight(sk.w, u, c)]
    /\ UNCHANGED <<pipelineVars, op, rt>>

\* all neighbours of the node at the head of the queue are placed
sarkar_next_node ==
    /\ sk.phase = "run"
    /\ sk.queue # <<>>
    /\ \A c \in Neighbours(Head(sk.queue)) : InSeq(sk.placed, c)
    /\ sk' = [sk EXCEPT !.queue = Tail(@)]
    /\ UNCHANGED <<pipelineVars, op, rt>>

\* the traversal is over: the embedding is returned
sarkar_return ==
    /\ sk.phase = "run"
    /\ sk.queue = <<>>
    /\ sk' = [sk EXCEPT !.phase = "done"]
    /\ UNCHANGED <<pipelineVars, op, rt>>

SarkarNext == sarkar_place_child \/ sarkar_next_node \/ sarkar_return

SarkarSpec == SarkarInit /\ [][SarkarNext]_vars

\* ================================================================ claims
InTrace(name) == \E i \in 1..Len(trace) : trace[i] = name

Count(name) == Cardinality({i \in 1..Len(trace) : trace[i] = name})

\* C1: a model_type that names none of the known variants is rejected before
\* any computation: no fit, no hMDS, and no metrics computed or formatted.
C1_UnknownModelRejected ==
    cfg.model_type \notin KnownVariants =>
        /\ ~InTrace("fit")
        /\ ~InTrace("mds")
        /\ ~InTrace("compute_metrics")
        /\ ~InTrace("format_metrics")
        /\ ~formatted

\* the steps that follow the loading of the pretrained embeddings
StepsAfterEmbedding == {"avg_distortion_measures", "frechet_mean",
                        "reflect_at_zero", "fit", "compute_metrics",
                        "format_metrics"}

\* C2: with pretrained embeddings and dim outside {2, 10, 50} the execution
\* ends in the assertion error before load_embeddings is called, and none of
\* the later steps is ever executed.
C2_DimErrorBeforeLoad ==
    (~cfg.use_sarkar /\ cfg.dim \notin {2, 10, 50}) =>
        /\ ~InTrace("load_embeddings")
        /\ \A s \in StepsAfterEmbedding : ~InTrace(s)
        /\ pc \in {"load_graph", "embed", "raised"}
        /\ (pc = "raised" => err = "AssertionError")
        /\ z = NoPoints

C2_Witness ==
    /\ ~cfg.use_sarkar
    /\ cfg.dim = 3
    /\ pc = "raised"
    /\ err = "AssertionError"

\* C3: when the execution ends in the dimension error, no graph loading,
\* shortest-path computation or other pipeline step has been performed.
C3_DimErrorBeforeAnyComputation ==
    err = "AssertionError" =>
        /\ trace = <<>>
        /\ graph_dist = NoMatrix

\* C4: a Frechet mean that ran out of steps is returned with
\* has_converged = FALSE and raises nothing; the centering and the fit
\* follow exactly as after a converged mean.
C4_NonConvergenceNotFatal ==
    /\ [][(pc = "frechet" /\ fr.state \in FrechetTerminal) =>
              /\ pc' = "center"
              /\ err' = "none"
              /\ mu_ref' = fr.mu
              /\ has_converged' = (fr.state = "Converged")]_vars
    /\ [][pc = "center" =>
              /\ x' = reflect_at_zero(z, mu_ref)
              /\ pc' = "dispatch"
              /\ err' = "none"]_vars
    /\ [](err \in {"none", "AssertionError", "DegeneracyError",
                   "UnboundLocalError", "KeyboardInterrupt"})

C4_Witness ==
    /\ fr.state = "MaxStepsReached"
    /\ ~has_converged
    /\ x = reflect_at_zero(z, mu_ref)
    /\ pc = "metrics"
    /\ model.fitted

\* the transitions of the estimator's state machine
FrechetTransitions == {<<"Idle", "Init">>, <<"Init", "Iterating">>,
                       <<"Iterating", "Iterating">>,
                       <<"Iterating", "Converged">>,
                       <<"Iterating", "MaxStepsReached">>}

\* C5: the Frechet-mean estimator moves Init -> Iterating -> {Converged,
\* MaxStepsReached}, takes at most max_steps iterations, always ends in one
\* of the two terminal states, and reports Converged = TRUE iff the change
\* fell below eps before the budget ran out.
C5_FrechetTerminates ==
    /\ [](/\ fr.iter \in 0..FrechetMaxSteps
          /\ (fr.state = "Converged") = fr.met
          /\ (fr.state = "MaxStepsReached" => fr.iter = FrechetMaxSteps)
          /\ (pc \notin {"load_graph", "embed", "distortion", "frechet", "raised"}
                => /\ fr.state \in FrechetTerminal
                   /\ has_converged = fr.met
                   /\ mu_ref = fr.mu))
    /\ [][/\ fr' # fr => <<fr.state, fr'.state>> \in FrechetTransitions
          /\ fr'.iter \in {fr.iter, fr.iter + 1}
          /\ fr.state \in FrechetTerminal => fr' = fr]_vars
    /\ ((fr.state = "Init") ~> (fr.state \in FrechetTerminal))

C5_Witness ==
    /\ fr.state = "Converged"
    /\ fr.iter \in 1..FrechetMaxSteps
    /\ has_converged
    /\ pc = "center"

\* the number of cycles run() is to perform for the chosen variant
Stochastic == {"pga", "bsa", "horopca"}
ClosedForm == {"pca", "tpca"}

ExpectedCycles == IF cfg.model_type \in Stochastic THEN cfg.n_runs ELSE 1

FreshModel(m, k) == /\ m.seed = k
                    /\ m.steps = 0
                    /\ m.spectral = 0
                    /\ ~m.nonfinite
                    /\ ~m.fitted

C7_FitDispatch ==
    model.cls # "none" =>
        /\ model.optim = (cfg.model_type \in Stochastic)
        /\ model.iterative = (cfg.model_type = "pga")
        /\ (~model.optim =>
              /\ model.steps = 0
              /\ model.spectral <= 1
              /\ (model.fitted => model.spectral = 1)
              /\ pc \notin {"fit_optim", "fit_done"})
        /\ (model.optim =>
              /\ model.spectral = 0
              /\ model.steps <= FitMaxSteps
              /\ model.steps = (IF pc \in {"fit_optim", "fit_done"}
                                THEN fitI ELSE model.steps)
              /\ fitI <= FitMaxSteps
              /\ pc # "fit_spectral")

C7_Witness ==
    /\ cfg.model_type = "pga"
    /\ model.iterative
    /\ model.optim
    /\ model.fitted
    /\ model.steps = FitMaxSteps

\* C8: an error raised inside one fit aborts only that fit: run() goes on
\* to its next cycle and the metrics records collected so far are kept.
C8_DegeneracyAbortsOnlyAttempt ==
    [][(err = "none" /\ err' = "DegeneracyError") =>
          /\ pc' \in {"loop", "fit"}
          /\ metrics' = metrics]_vars

\* C9: no parameter update is ever applied from a non-finite loss or
\* gradient; the fit is aborted at that iteration.
C9_NonFiniteAbortsFit ==
    /\ ~model.nonfinite
    /\ \A i \in 1..Len(metrics.recs) : ~metrics.recs[i].nonfinite

\* C10: x and the distance matrices never change once produced, so every
\* cycle fits and is measured on the same x.
C10_InputsImmutable ==
    /\ [][/\ x # NoPoints => x' = x
          /\ graph_dist # NoMatrix => graph_dist' = graph_dist
          /\ z_dist # NoMatrix => z_dist' = z_dist]_vars
    /\ [](\A i \in 1..Len(metrics.recs) :
             metrics.recs[i].x = reflect_at_zero(z, mu_ref))

C10_Witness ==
    /\ runIdx = MaxRuns
    /\ pc = "loop"
    /\ Len(metrics.recs) = MaxRuns
    /\ embeddings.kind = "array"
    /\ x = reflect_at_zero(z, mu_ref)

\* C11: the components of a model change only while its own fit runs;
\* compute_metrics and map_to_ball are called only on a model whose fit has
\* returned, and they leave the fitted components as they are.
C11_ComponentsFrozenAfterFit ==
    /\ [][model' # model =>
             \/ pc = "loop" /\ ~model'.fitted
             \/ pc \in {"fit_spectral", "fit_optim", "fit_done"}]_vars
    /\ [][(pc \in {"metrics", "map"}) => model' = model]_vars
    /\ [](pc \in {"metrics", "map"} => model.fitted)
    /\ [](\A i \in 1..Len(metrics.recs) :
             metrics.recs[i].steps + metrics.recs[i].spectral > 0
             \/ metrics.recs[i].seed = -1)
    /\ [](embeddings.kind = "array" => embeddings.of.fitted)

C11_Witness ==
    /\ pc = "loop"
    /\ runIdx = 1
    /\ model.fitted
    /\ model.steps = FitMaxSteps
    /\ embeddings = map_to_ball(model, x)
    /\ metrics.recs[1] = compute_metrics(model, x)

\* C12: a fit is stopped only between two iterations: whenever it is
\* stopped, the loop stands at its per-iteration test and the components are
\* the result of a whole number of update steps.
C12_CancelledOnlyAtIterationBoundary ==
    err = "KeyboardInterrupt" =>
        /\ intr.at = "boundary"
        /\ model.steps = intr.i

\* two vectors on one line through the origin (the zero vector included)
Colinear(u, v) == \A i, j \in 1..3 : u[i] * v[j] = u[j] * v[i]

\* C13: orthogonal_projection called with two colinear basis vectors raises
\* the degeneracy signal for every x and returns no value; what it returns
\* for any other basis is the orthogonal projection.
C13_ColinearBasisRaises ==
    op.phase = "done" =>
        /\ Colinear(op.b1, op.b2) => op.result.raised
        /\ op.result.raised => op.result.den = 0
        /\ ~op.result.raised =>
              /\ op.result.den # 0
              /\ \A b \in {op.b1, op.b2} :
                    bilinear_pairing([i \in 1..3 |->
                        op.result.den * op.x[i] - op.result.num[i]], b) = 0

C13_Witness ==
    /\ op.phase = "done"
    /\ op.b1 = <<0, 1, 0>>
    /\ op.b2 = <<0, -1, 0>>
    /\ op.x = <<1, 1, 1>>
    /\ op.result.raised

\* C14: for every interior ball point x, from_poincare(x) lies on the upper
\* sheet of the hyperboloid (Minkowski squared norm -1, time coordinate > 0)
\* and to_poincare(from_poincare(x)) is x again.
C14_RoundTrip ==
    /\ rt.phase \in {"hyperboloid", "back"} =>
          /\ rt.y.den > 0
          /\ rt.y.t > 0
          /\ -(rt.y.t * rt.y.t) + rt.y.s1 * rt.y.s1 + rt.y.s2 * rt.y.s2
                = -(rt.y.den * rt.y.den)
    /\ rt.phase = "back" =>
          /\ rt.back.q > 0
          /\ rt.back.a * rt.x.q = rt.x.a * rt.back.q
          /\ rt.back.b * rt.x.q = rt.x.b * rt.back.q

C14_Witness ==
    /\ rt.phase = "back"
    /\ rt.x = [a |-> 2, b |-> -1, q |-> 3]
    /\ rt.y = [t |-> 14, s1 |-> 12, s2 |-> -6, den |-> 4]
    /\ rt.back = [a |-> 12, b |-> -6, q |-> 18]

Abs(n) == IF n < 0 THEN -n ELSE n

RECURSIVE SumWeights(_, _, _)
\* weight of the path between the nodes a <= b: the graph distance
SumWeights(w, a, b) == IF a >= b THEN 0 ELSE w[a] + SumWeights(w, a + 1, b)

GraphDistance(w, u, v) == IF u < v THEN SumWeights(w, u, v)
                          ELSE SumWeights(w, v, u)

IndexIn(q, n) == CHOOSE i \in 1..Len(q) : q[i] = n

\* C15: sarkar places every node exactly once, the root at the origin and
\* every other node after its parent, at hyperbolic distance
\* tau * edge weight from the parent; on the path graph with tau = 3.5 every
\* embedded distance divided by tau is within 5% of the graph distance.
C15_SarkarPlacement ==
    sk.phase \in {"run", "done"} =>
        /\ sk.placed[1] = sk.root
        /\ sk.pos[sk.root] = 0
        /\ \A i, j \in 1..Len(sk.placed) : sk.placed[i] = sk.placed[j] => i = j
        /\ \A i \in 2..Len(sk.placed) :
              LET c == sk.placed[i]
                  p == sk.parent[c]
              IN /\ p \in Neighbours(c)
                 /\ InSeq(sk.placed, p)
                 /\ IndexIn(sk.placed, p) < i
                 /\ Abs(sk.pos[c] - sk.pos[p])
                       = TauHalves * EdgeWeight(sk.w, p, c)
        /\ sk.phase = "done" =>
              /\ Len(sk.placed) = PathNodes
              /\ \A u, v \in PathGraph :
                    20 * Abs(Abs(sk.pos[u] - sk.pos[v])
                             - TauHalves * GraphDistance(sk.w, u, v))
                       <= TauHalves * GraphDistance(sk.w, u, v)

C15_Witness ==
    /\ sk.phase = "done"
    /\ sk.root = 3
    /\ \A e \in 1..(PathNodes - 1) : sk.w[e] = 1
    /\ Abs(sk.pos[1] - sk.pos[PathNodes]) = TauHalves * (PathNodes - 1)

\* position of the first call of one of the names, 0 if none was called
FirstOf(names) ==
    LET at == {i \in 1..Len(trace) : trace[i] \in names}
    IN IF at = {} THEN 0 ELSE CHOOSE i \in at : \A j \in at : i <= j

\* the stages of the pipeline, each with the calls that mark it
StageCalls == <<{"load_graph"}, {"load_embeddings", "sarkar"},
               {"avg_distortion_measures"}, {"frechet_mean"},
               {"reflect_at_zero"}, {"fit", "mds"}, {"compute_metrics"},
               {"format_metrics"}>>

\* C16: the stages occur in the order graph loading, embedding, embedding
\* distortion, Frechet mean, centering, reduction (fit or hMDS), metrics,
\* format_metrics, and every fit works on the embedding of this run
\* centered at the Frechet mean computed for it.
C16_PipelineOrder ==
    /\ LET first == [k \in 1..Len(StageCalls) |-> FirstOf(StageCalls[k])]
       IN \A k \in 1..Len(StageCalls), l \in 1..Len(StageCalls) :
             (k < l /\ first[l] # 0) =>
                 \* the stages up to the centering are never left out; the
                 \* reduction and the metrics are when the loop has no cycle
                 /\ (k <= 5 => first[k] # 0)
                 /\ (first[k] # 0 => first[k] < first[l])
    /\ \A k \in 1..5 : Cardinality({i \in 1..Len(trace) :
                                      trace[i] \in StageCalls[k]}) <= 1
    /\ (InTrace("format_metrics") => trace[Len(trace)] = "format_metrics")
    /\ (InTrace("fit") \/ InTrace("mds")) =>
          /\ z # NoPoints
          /\ mu_ref = fr.mu
          /\ fr.state \in FrechetTerminal
          /\ x = reflect_at_zero(z, mu_ref)

C16_Witness ==
    /\ pc = "done"
    /\ cfg.model_type = "bsa"
    /\ cfg.n_runs = MaxRuns
    /\ cfg.use_sarkar
    /\ Count("fit") = MaxRuns
    /\ x = reflect_at_zero(z, fr.mu)

\* C17: run() of main.ipynb finds every variable it uses bound: no call of
\* it ends in an UnboundLocalError, whatever the model_type.
C17_MainRunSelfContained ==
    nb = "main" => err # "UnboundLocalError"

\* C18: with use_sarkar the dimension restriction is not applied: any dim
\* is accepted without an error, only the distances used for the distortion
\* are divided by sarkar_scale, and the embedding z goes unscaled to the
\* Frechet mean and to the reduction.
C18_SarkarAcceptsAnyDim ==
    cfg.use_sarkar =>
        /\ err # "AssertionError"
        /\ ~InTrace("load_embeddings")
        /\ (pc \notin {"load_graph", "embed"} =>
              /\ z = [kind |-> "sarkar", dim |-> cfg.dim, center |-> -1]
              /\ z_dist = [of |-> "sarkar", scaled |-> TRUE]
              /\ InTrace("sarkar"))
        /\ (x # NoPoints =>
              x = [kind |-> "sarkar", dim |-> cfg.dim, center |-> mu_ref])

C18_Witness ==
    /\ cfg.use_sarkar
    /\ cfg.dim = 3
    /\ pc = "metrics"
    /\ model.fitted
    /\ x.kind = "sarkar"
    /\ z_dist.scaled

\* C19: in run() of main2 only the embedding of the last cycle is kept:
\* after the loop embeddings is map_to_ball(x) of the n_runs-th model while
\* the aggregated metrics hold a record of every cycle; with n_runs = 0 no
\* model is fitted, embeddings is still empty and aggregate_metrics gets an
\* empty list.
C19_LastEmbeddingKept ==
    (nb = "main2" /\ cfg.model_type \in Stochastic \cup ClosedForm
       /\ pc \in {"aggregate", "format", "done"}) =>
        /\ Len(metrics.recs) = ExpectedCycles
        /\ metrics.kind = (IF pc = "aggregate" THEN "list" ELSE "aggregated")
        /\ \A i \in 1..Len(metrics.recs) : metrics.recs[i].seed = i - 1
        /\ IF ExpectedCycles = 0
           THEN /\ model = NoModel
                /\ ~InTrace("fit")
                /\ embeddings = [kind |-> "empty", of |-> NoModel]
                /\ metrics.recs = <<>>
           ELSE /\ model.seed = ExpectedCycles - 1
                /\ model.fitted
                /\ embeddings = map_to_ball(model, x)
                /\ metrics.recs[ExpectedCycles] = compute_metrics(model, x)

C19_Witness ==
    /\ nb = "main2"
    /\ cfg.model_type = "pga"
    /\ cfg.n_runs = MaxRuns
    /\ pc = "done"
    /\ metrics.kind = "aggregated"
    /\ Len(metrics.recs) = MaxRuns
    /\ embeddings.of.seed = MaxRuns - 1
    /\ metrics.recs[1].steps # embeddings.of.steps
====
